--------------------------- MODULE ListRecordings ---------------------------
(***************************************************************************)
(* Readers of a stream's recordings, running against everything module     *)
(* Recordings does (server/db/db.rs):                                      *)
(*                                                                         *)
(*   - list_recordings_by_id and list_recordings_by_time, which combine    *)
(*     rows of the database with recent_recordings.  They hold the         *)
(*     database lock throughout but release the stream lock while SQLite   *)
(*     runs, pinning recent_recordings meanwhile;                          *)
(*   - with_recording_playback, which looks in recent_recordings and then  *)
(*     perhaps in the database.                                            *)
(*                                                                         *)
(* A listing by time is one of all ids here, in the order of ids: that a   *)
(* row is left out for its time range, and that the query orders by start  *)
(* times, which a clock that is set back lets disagree with ids, is not    *)
(* modelled.                                                               *)
(***************************************************************************)
EXTENDS Recordings

VARIABLE list       \* the listing in progress: [pc, from, to, db_end, result]

NoList == [pc |-> "Idle", from |-> 0, to |-> 0, db_end |-> 0, result |-> << >>]

-----------------------------------------------------------------------------

\* The first id that recent_recordings, rather than the database, answers for.
MinRecent ==
  IF recent_recordings = << >> THEN committed ELSE Head(recent_recordings).id

\* A set of numbers in ascending order: the k-th is the one with k up to it.
UpTo(ids, id)  == {o \in ids : o <= id}
Ascending(ids) ==
  [k \in 1..Cardinality(ids) |-> CHOOSE id \in ids : Cardinality(UpTo(ids, id)) = k]

\* The recent recordings a listing returns, in the order they are held in.
Returned(r, from, to) == r.id \in from..(to - 1) /\ ~Deleted(r)
RecentIds(from, to) ==
  LET places == Ascending({i \in DOMAIN recent_recordings :
                              Returned(recent_recordings[i], from, to)})
  IN  [k \in DOMAIN places |-> recent_recordings[places[k]].id]

\* The rows a listing returns, in the order of the query by id.
DbIds(from, to) == Ascending({id \in DOMAIN row : id \in from..(to - 1)})

ListPin(from, to, by_time) ==
  /\ process = "running"
  /\ DbUnlocked
  /\ by_time \/ from < MinRecent
  /\ pinned' = TRUE
  /\ list' = [pc |-> "Pinned", from |-> from, to |-> to,
              db_end |-> IF by_time THEN MinRecent ELSE Min({MinRecent, to}),
              result |-> << >>]
  /\ UNCHANGED <<recent_recordings, recent_frames, complete, committed,
                 flush_ready, writer_state, to_delete, byteVars, retain_bytes,
                 threadVars, poolVars, file, dbVars, process, faults,
                 historyVars>>

\* The query, with the stream unlocked.
ListQuery ==
  /\ list.pc = "Pinned"
  /\ list' = [list EXCEPT !.pc = "Queried",
                          !.result = DbIds(list.from, list.db_end)]
  /\ UNCHANGED vars

\* The stream lock is retaken, the pin removed and recent recordings added.
ListUnpin ==
  /\ list.pc = "Queried"
  /\ pinned' = FALSE
  /\ list' = [list EXCEPT !.pc = "Idle",
                          !.result = @ \o RecentIds(list.from, list.to)]
  /\ UNCHANGED <<recent_recordings, recent_frames, complete, committed,
                 flush_ready, writer_state, to_delete, byteVars, retain_bytes,
                 threadVars, poolVars, file, dbVars, process, faults,
                 historyVars>>

List ==
  \/ \E from, to \in 0..MaxRecordings : from < to /\ ListPin(from, to, FALSE)
  \/ ListPin(0, MaxRecordings, TRUE)
  \/ ListQuery
  \/ ListUnpin

-----------------------------------------------------------------------------

ListInit == Init /\ list = NoList

\* A crash also ends the listing.
ListNext ==
  \/ List
  \/ Next /\ list' = IF process' = "running" THEN list ELSE NoList

ListSpec == ListInit /\ [][ListNext]_<<vars, list>>

-----------------------------------------------------------------------------

(***************************************************************************)
(* A listing is atomic: what it returns when it unpins is, in ascending    *)
(* order and without repetition, exactly the recordings then in existence, *)
(* although part of it was read from the database earlier and the Writer   *)
(* and the worker have gone on meanwhile.  Without the pin a recording     *)
(* could leave recent_recordings after the query and be in neither part.   *)
(***************************************************************************)
ListIsAtomic ==
  [][list.pc = "Queried" /\ list'.pc = "Idle" /\ process' = "running" =>
       list'.result =
         Ascending({id \in list.from..(list.to - 1) : Listed(id)})]_<<vars, list>>

\* Mutation of PlaybackPath: off by one.
PlaybackPathTooShort(id) ==
  IF \E i \in DOMAIN recent_recordings : recent_recordings[i].id = id THEN "recent"
  ELSE IF \/ id >= committed
          \/ recent_recordings # << >> /\ Head(recent_recordings).id <= id + 1
       THEN "missing"
  ELSE "database"

\* Where with_recording_playback looks for a recording's index.
PlaybackPath(id) ==
  IF \E i \in DOMAIN recent_recordings : recent_recordings[i].id = id THEN "recent"
  ELSE IF \/ id >= committed
          \/ recent_recordings # << >> /\ Head(recent_recordings).id <= id
       THEN "missing"
  ELSE "database"

(***************************************************************************)
(* with_recording_playback finds the index of every recording a listing    *)
(* would return: it looks in recent_recordings, gives up if that would     *)
(* hold the id, and otherwise asks the database.                           *)
(***************************************************************************)
PlaybackFindsListed ==
  process = "running" /\ flush.pc = "Idle" =>
    \A id \in Ids :
      Listed(id) => \/ PlaybackPath(id) = "recent"
                    \/ PlaybackPath(id) = "database" /\ id \in DOMAIN row
=============================================================================

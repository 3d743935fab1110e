----------------------------- MODULE Recordings -----------------------------
(***************************************************************************)
(* The life of one stream's recordings, from the frames a camera sends to  *)
(* the SQLite row, the sample file and, at the end, its garbage row:       *)
(*                                                                         *)
(*   - the Writer, which pushes frames and closes recordings               *)
(*     (server/db/writer.rs);                                              *)
(*   - the stream's in-memory state behind its lock                        *)
(*     (server/db/stream/mod.rs);                                          *)
(*   - a directory pool worker that creates, writes, syncs or unlinks the  *)
(*     sample files (server/db/dir/writer.rs);                             *)
(*   - the flusher's marking of recordings as ready and its choice of old  *)
(*     ones to delete (server/db/lifecycle.rs);                            *)
(*   - LockedDatabase::flush, in its three lock scopes (server/db/db.rs);  *)
(*   - garbage collection by the pool's workers (server/db/dir/mod.rs);    *)
(*   - a crash at any point and the next start.                            *)
(*                                                                         *)
(* The pool is open for writing throughout: DirPool has its lifecycle.     *)
(***************************************************************************)
EXTENDS Integers, FiniteSets, FiniteSetsExt, SequencesExt, Functions, RecentFrames

CONSTANTS
  MaxRecordings,  \* bound: recording ids are 0..MaxRecordings-1
  MaxBytes,       \* bound: bytes in one recording
  FrameSizes,     \* the sizes a frame may have
  BlockSize,      \* ASSUMED_BLOCK_SIZE_BYTES
  Limits,         \* the values retain_bytes may be given
  Collectors,     \* workers that may run a CollectGarbage command
  MaxFaults       \* bound: crashes, I/O errors and SQL errors

ASSUME RecordingsAssumption ==
  /\ MaxRecordings \in Nat \ {0}
  /\ MaxBytes \in Nat \ {0}
  /\ FrameSizes \subseteq 1..MaxBytes /\ FrameSizes # {}
  /\ BlockSize \in Nat \ {0} /\ Limits \subseteq Nat /\ Limits # {}
  /\ IsFiniteSet(Collectors)
  /\ MaxFaults \in Nat

Ids  == 0..(MaxRecordings - 1)
NoId == -1                         \* Option::None for a recording id

VARIABLES
  (* the stream, behind its lock *)
  recent_recordings,  \* sequence of [id, sample_file_bytes, flags]
  recent_frames,      \* sequence of frames, as in RecentFrames
  complete,           \* complete.cum_recordings, the next id to assign
  committed,          \* committed.cum_recordings
  flush_ready,        \* next id beyond those the flusher has examined
  writer_state,       \* the pool's [recording_id, written, file]
  to_delete,          \* ids the next flush moves to the garbage table
  fs_bytes,           \* committed.fs_bytes
  fs_bytes_to_delete, \* what to_delete stands for on the filesystem
  retain_bytes,       \* of the stream's configuration
  pinned,             \* recent_recordings_pinned
  (* threads *)
  recording_id,       \* the recording the Writer is growing, or NoId
  io,                 \* the stream's WakeWriter command: [op, n]
  flush,              \* LockedDatabase::flush: [pc, new, cum, deletion, gced]
  gc,                 \* ids each collector has unlinked and not yet synced
  (* the pool, behind its lock *)
  garbage_needs_unlink,
  garbage_unlinked,
  (* stable storage *)
  file,               \* id -> [exists, pending, size, synced]
  row,                \* the recording table: id -> sample_file_bytes
  garbage,            \* the garbage table
  cum_recordings,     \* the stream table's counter
  (* the process *)
  process,            \* "down", "abandoned" or "running"
  faults,
  (* history *)
  removed,            \* ids a flush has moved to the garbage table
  excused,            \* ids that met an I/O error, or outran the writer
  leaked,             \* ids whose file an abort failed to unlink
  overdue             \* the last enqueue_delete_recordings failed

byteVars    == <<fs_bytes, fs_bytes_to_delete>>
streamVars  == <<recent_recordings, recent_frames, complete, committed,
                 flush_ready, writer_state, to_delete, byteVars, retain_bytes,
                 pinned>>
threadVars  == <<recording_id, io, flush, gc>>
poolVars    == <<garbage_needs_unlink, garbage_unlinked>>
dbVars      == <<row, garbage, cum_recordings>>
historyVars == <<removed, excused, leaked, overdue>>
vars == <<streamVars, threadVars, poolVars, file, dbVars, process, faults,
          historyVars>>

-----------------------------------------------------------------------------
(* Types.                                                                  *)

Flag      == {"GROWING", "UNCOMMITTED", "DELETED"}
Recording == [id : Ids, sample_file_bytes : 0..MaxBytes, flags : SUBSET Flag]
Frame     == [recording_id : Ids, is_key : BOOLEAN, sample_start : 0..MaxBytes,
              len : FrameSizes]
Outcomes  == {"Start", "Aborted", "Written", "Synced"}
IoSteps   == {"Abort", "Create", "Write", "Sync", "SyncDir"}
Idle      == [op |-> "Idle", n |-> 0]
NoFlush   == [pc |-> "Idle", new |-> << >>, cum |-> NoId, deletion |-> {},
              gced |-> {}]
NoFile    == [exists |-> FALSE, pending |-> FALSE, size |-> 0,
              synced |-> FALSE]

TypeOK ==
  /\ recent_recordings \in Seq(Recording)
  /\ recent_frames \in Seq(Frame)
  /\ complete \in 0..MaxRecordings
  /\ committed \in 0..MaxRecordings
  /\ flush_ready \in 0..MaxRecordings
  /\ writer_state \in [recording_id : 0..MaxRecordings, written : 0..MaxBytes,
                       file : BOOLEAN]
  /\ to_delete \in SUBSET Ids
  /\ fs_bytes \in Nat /\ fs_bytes_to_delete \in 0..fs_bytes
  /\ retain_bytes \in Limits
  /\ pinned \in BOOLEAN
  /\ recording_id \in Ids \cup {NoId}
  /\ io \in [op : {"Idle"} \cup Outcomes \cup IoSteps, n : 0..MaxBytes]
  /\ flush.pc \in {"Idle", "Collected", "Committed"}
  /\ DOMAIN flush.new \subseteq Ids
  /\ flush.cum \in {NoId} \cup 0..MaxRecordings
  /\ flush.deletion \in SUBSET Ids
  /\ flush.gced \in SUBSET Ids
  /\ gc \in [Collectors -> SUBSET Ids]
  /\ garbage_needs_unlink \in SUBSET Ids
  /\ garbage_unlinked \in SUBSET Ids
  /\ file \in [Ids -> [exists : BOOLEAN, pending : BOOLEAN, size : 0..MaxBytes,
                       synced : BOOLEAN]]
  /\ DOMAIN row \subseteq Ids
  /\ \A id \in DOMAIN row : row[id] \in 1..MaxBytes
  /\ garbage \in SUBSET Ids
  /\ cum_recordings \in 0..MaxRecordings
  /\ process \in {"down", "abandoned", "running"}
  /\ faults \in 0..MaxFaults
  /\ removed \in SUBSET Ids
  /\ excused \in SUBSET Ids
  /\ leaked \in SUBSET Ids
  /\ overdue \in BOOLEAN

Init ==
  /\ recent_recordings = << >>
  /\ recent_frames = << >>
  /\ complete = 0
  /\ committed = 0
  /\ flush_ready = 0
  /\ writer_state = [recording_id |-> 0, written |-> 0, file |-> FALSE]
  /\ to_delete = {}
  /\ fs_bytes = 0
  /\ fs_bytes_to_delete = 0
  /\ retain_bytes \in Limits
  /\ pinned = FALSE
  /\ recording_id = NoId
  /\ io = Idle
  /\ flush = NoFlush
  /\ gc = [c \in Collectors |-> {}]
  /\ garbage_needs_unlink = {}
  /\ garbage_unlinked = {}
  /\ file = [id \in Ids |-> NoFile]
  /\ row = << >>
  /\ garbage = {}
  /\ cum_recordings = 0
  /\ process = "running"
  /\ faults = 0
  /\ removed = {}
  /\ excused = {}
  /\ leaked = {}
  /\ overdue = FALSE

-----------------------------------------------------------------------------
(* Operations on the stream's state, made under its lock.                  *)

Growing(r)     == "GROWING" \in r.flags
Uncommitted(r) == "UNCOMMITTED" \in r.flags
Deleted(r)     == "DELETED" \in r.flags

Pos(ws) == BytePos(ws.recording_id, ws.written)

\* Mutation of After: off by one.
SkipsOne(id) == [recording_id |-> id + 2, written |-> 0, file |-> FALSE]

\* The writer state once recording id is synced or aborted.
After(id) == [recording_id |-> id + 1, written |-> 0, file |-> FALSE]

MarkDeleted(recents, ids) ==
  [i \in DOMAIN recents |->
     IF recents[i].id \in ids
     THEN [recents[i] EXCEPT !.flags = @ \cup {"DELETED"}]
     ELSE recents[i]]

\* Mutation of StillNeeded: one of its reasons is forgotten.
NeededUncommitted(r, frames, ws) ==
  \/ frames # << >> /\ r.id >= Head(frames).recording_id
  \/ r.id = ws.recording_id /\ ws.written = r.sample_file_bytes

\* A recording is still needed for its frames, because it waits to be
\* committed, or because it is being synced.
StillNeeded(r, frames, ws) ==
  \/ frames # << >> /\ r.id >= Head(frames).recording_id
  \/ r.id < ws.recording_id /\ ~Deleted(r) /\ Uncommitted(r)
  \/ r.id = ws.recording_id /\ ws.written = r.sample_file_bytes

\* Drops recordings from the front, up to the first still needed.
Prune(recents, frames, ws) ==
  LET n == Min({k \in 0..Len(recents) :
                  \/ k = Len(recents)
                  \/ StillNeeded(recents[k + 1], frames, ws)})
  IN  SubSeq(recents, n + 1, Len(recents))

MaybePrune(recents, frames, ws) ==
  IF pinned THEN recents ELSE Prune(recents, frames, ws)

\* Recordings that lose a frame to prune_front before the worker wrote it.
Outrun(frames, ws) ==
  {frames[i].recording_id : i \in
     {j \in 1..PruneCount(frames, Pos(ws)) : Precedes(Pos(ws), End(frames[j]))}}

-----------------------------------------------------------------------------
(* Writer.  A frame is pushed when its successor arrives, and a recording  *)
(* is closed, if at all, in the same lock scope: on rotation, on a change  *)
(* of the video parameters, on a timestamp error, or when the run ends.    *)
(* The streamer starts a recording with a key frame only.                  *)

PushAndMaybeClose(is_key, len, close) ==
  LET opening   == recording_id = NoId
      id        == IF opening THEN complete ELSE recording_id
      opened    == IF opening
                   THEN Append(recent_recordings,
                               [id |-> id, sample_file_bytes |-> 0,
                                flags |-> {"GROWING", "UNCOMMITTED"}])
                   ELSE recent_recordings
      start     == opened[Len(opened)].sample_file_bytes
      bytes     == start + len
      grown     == [opened EXCEPT ![Len(opened)].sample_file_bytes = bytes]
      frames    == Append(recent_frames,
                          [recording_id |-> id, is_key |-> is_key,
                           sample_start |-> start, len |-> len])
      pruned    == PruneFront(frames, Pos(writer_state))
      recents   == MaybePrune(grown, pruned, writer_state)
      wake      == \/ close
                   \/ is_key /\ start > 0
                   \/ /\ writer_state.recording_id = id
                      /\ 2 * (bytes - writer_state.written) >= BytesForWriter
  IN  /\ process = "running"
      /\ id < MaxRecordings
      /\ opening => is_key
      /\ bytes <= MaxBytes
      /\ recent_frames' = pruned
      /\ excused' = excused \cup Outrun(frames, writer_state)
      /\ recent_recordings' =
           IF close
           THEN [recents EXCEPT ![Len(recents)].flags = @ \ {"GROWING"}]
           ELSE recents
      /\ complete' = IF close THEN complete + 1 ELSE complete
      /\ recording_id' = IF close THEN NoId ELSE id
      /\ io' = IF wake /\ io.op = "Idle" THEN [op |-> "Start", n |-> 0] ELSE io
      /\ UNCHANGED <<committed, flush_ready, writer_state, to_delete, byteVars,
                     retain_bytes, pinned, flush, gc, poolVars, file, dbVars,
                     process, faults, removed, leaked, overdue>>

Write ==
  \E is_key \in BOOLEAN, len \in FrameSizes, close \in BOOLEAN :
    PushAndMaybeClose(is_key, len, close)

-----------------------------------------------------------------------------
(* The worker's write_iter_prep: under the stream lock, take in the        *)
(* outcome of the last I/O step and choose the next one.                   *)

\* prepare_write's answer: the next bytes to write are no longer in memory.
Behind(r, written, frames) ==
  LET rest == IterFromBytePos(frames, BytePos(r.id, written))
  IN  IF rest # << >> /\ Head(rest).recording_id = r.id
      THEN written < Head(rest).sample_start
      ELSE written < r.sample_file_bytes

\* The number of recordings before the first one from id on.
PartitionPoint(recents, id) ==
  Min({k \in 0..Len(recents) : k = Len(recents) \/ recents[k + 1].id >= id})

\* Chooses the next step given the state as the last outcome left it: under
\* one hold of the lock, recordings that have fallen behind and have no file
\* are marked deleted and passed over, up to the one at next + 1.
Choose(recents, frames, ws) ==
  LET first   == PartitionPoint(recents, ws.recording_id)
      Written(r) == IF r.id = ws.recording_id THEN ws.written ELSE 0
      next    == Min({k \in first..Len(recents) :
                        \/ k = Len(recents)
                        \/ ~Behind(recents[k + 1], Written(recents[k + 1]), frames)})
      r       == recents[next + 1]
      open    == /\ ws.file /\ next = first /\ next < Len(recents)
                 /\ r.id = ws.recording_id
      doomed  == ws.file /\ ~open         \* a file that must be unlinked
      found   == ~doomed /\ next < Len(recents)
      left    == r.sample_file_bytes - Written(r)
      At(f)   == [recording_id |-> r.id, written |-> Written(r), file |-> f]
      Step(op, n) == io' = [op |-> op, n |-> n]
  IN  /\ recent_frames' = frames
      /\ recent_recordings' =
           IF doomed THEN recents
           ELSE MarkDeleted(recents, {recents[k].id : k \in (first + 1)..next})
      /\ \/ /\ doomed
            /\ writer_state' = [ws EXCEPT !.file = FALSE]
            /\ Step("Abort", 0)
         \/ /\ ~doomed /\ ~found          \* wait for more recordings
            /\ writer_state' = IF next = first THEN ws ELSE After(recents[next].id)
            /\ Step("Idle", 0)
         \/ /\ found /\ left > 0
            /\ writer_state' = At(FALSE)
            /\ Step(IF open THEN "Write" ELSE "Create", left)
         \/ /\ found /\ left = 0 /\ Growing(r)
            /\ writer_state' = At(open)
            /\ Step("Idle", 0)
         \/ /\ found /\ left = 0 /\ ~Growing(r)
            /\ writer_state' = At(FALSE)
            /\ Step("Sync", 0)

WorkerUnchanged == UNCHANGED <<complete, committed, flush_ready, to_delete,
  byteVars, retain_bytes, pinned, recording_id, flush, gc, poolVars, file,
  dbVars, process, faults, historyVars>>

PrepStart ==
  /\ io.op = "Start"
  /\ Choose(recent_recordings, recent_frames, writer_state)
  /\ WorkerUnchanged

PrepWritten ==
  /\ io.op = "Written"
  /\ LET ws == [writer_state EXCEPT !.written = @ + io.n, !.file = TRUE]
     IN  Choose(recent_recordings, PruneFront(recent_frames, Pos(ws)), ws)
  /\ WorkerUnchanged

PrepAborted ==
  /\ io.op = "Aborted"
  /\ LET id      == writer_state.recording_id
         ws      == After(id)
         frames  == PruneFront(recent_frames, Pos(ws))
         recents == MaybePrune(MarkDeleted(recent_recordings, {id}), frames, ws)
     IN  Choose(recents, frames, ws)
  /\ WorkerUnchanged

PrepSynced ==
  /\ io.op = "Synced"
  /\ LET ws == After(writer_state.recording_id)
     IN  Choose(recent_recordings, PruneFront(recent_frames, Pos(ws)), ws)
  /\ WorkerUnchanged

-----------------------------------------------------------------------------
(* The worker's write_iter_step: I/O, with no lock held.                   *)

Current  == writer_state.recording_id   \* the recording the step is for
Unlinked == [NoFile EXCEPT !.pending = TRUE]

\* An I/O or SQL error, or a crash; their number is bounded.
Fault == faults < MaxFaults /\ faults' = faults + 1

\* Some prefix of the prepared bytes is written.
WriteBytes ==
  /\ io.op \in {"Create", "Write"}
  /\ io.op = "Create" => ~file[Current].exists           \* O_EXCL
  /\ \E n \in 1..io.n :
       /\ file' = [file EXCEPT ![Current] =
                     [exists |-> TRUE,
                      pending |-> @.pending \/ io.op = "Create",
                      size |-> @.size + n, synced |-> FALSE]]
       /\ io' = [op |-> "Written", n |-> n]
  /\ UNCHANGED <<streamVars, recording_id, flush, gc, poolVars, dbVars,
                 process, faults, historyVars>>

\* The file can't be created, by an I/O error or because it exists.
CreateFails ==
  /\ io.op = "Create"
  /\ IF file[Current].exists
     THEN UNCHANGED <<faults, excused>>
     ELSE Fault /\ excused' = excused \cup {Current}
  /\ io' = [op |-> "Aborted", n |-> 0]
  /\ UNCHANGED <<streamVars, recording_id, flush, gc, poolVars, file, dbVars,
                 process, removed, leaked, overdue>>

\* The file as the step finds it, or has just created it.
Opened(f) == IF io.op = "Create" THEN [f EXCEPT !.exists = TRUE, !.pending = TRUE] ELSE f

\* abort: unlinks the file, which may fail; the directory is not synced.
AbortFile(unlinked) ==
  /\ io' = [op |-> "Aborted", n |-> 0]
  /\ file' = [file EXCEPT ![Current] = IF unlinked THEN Unlinked ELSE Opened(@)]
  /\ leaked' = IF unlinked THEN leaked ELSE leaked \cup {Current}
  /\ UNCHANGED <<streamVars, recording_id, flush, gc, poolVars, dbVars,
                 process, removed, overdue>>

Abort ==
  /\ io.op = "Abort"
  /\ \/ AbortFile(TRUE) /\ UNCHANGED faults
     \/ AbortFile(FALSE) /\ Fault
  /\ UNCHANGED excused

\* A write, also the first after the create, or the file's sync_all fails; the
\* recording is aborted.
FileIoFails ==
  /\ io.op \in {"Create", "Write", "Sync"}
  /\ io.op = "Create" => ~file[Current].exists
  /\ Fault
  /\ \E unlinked \in BOOLEAN : AbortFile(unlinked)
  /\ excused' = excused \cup {Current}

SyncFile ==
  /\ io.op = "Sync"
  /\ file' = [file EXCEPT ![Current].synced = TRUE]
  /\ io' = [op |-> "SyncDir", n |-> 0]
  /\ UNCHANGED <<streamVars, recording_id, flush, gc, poolVars, dbVars,
                 process, faults, historyVars>>

\* Mutation of DirSynced: the call is left out.
DirNotSynced == file

\* fsync of the directory makes every earlier create and unlink durable.
DirSynced == [id \in Ids |-> [file[id] EXCEPT !.pending = FALSE]]

\* A failing fsync of the directory aborts the process: that is a Crash.
SyncDir ==
  /\ io.op = "SyncDir"
  /\ file' = DirSynced
  /\ io' = [op |-> "Synced", n |-> 0]
  /\ UNCHANGED <<streamVars, recording_id, flush, gc, poolVars, dbVars,
                 process, faults, historyVars>>

Worker ==
  \/ PrepStart \/ PrepWritten \/ PrepAborted \/ PrepSynced
  \/ WriteBytes \/ CreateFails \/ Abort \/ FileIoFails \/ SyncFile \/ SyncDir

-----------------------------------------------------------------------------
(* Steps under the database lock.  flush and the listings hold it across   *)
(* several scopes of the stream lock; other steps are within one scope.    *)

DbUnlocked == flush.pc = "Idle" /\ ~pinned

RoundUp(bytes) == ((bytes + BlockSize - 1) \div BlockSize) * BlockSize

\* What rows, a function of ids to bytes, take on the filesystem.
FsBytes(rows) == MapThenSumSet(LAMBDA id : RoundUp(rows[id]), DOMAIN rows)

\* fs_bytes_to_add: what the next flush is expected to insert, aborted
\* recordings included.
FsBytesToAdd(ready) ==
  MapThenSumSet(LAMBDA r : RoundUp(r.sample_file_bytes),
                {r \in ToSet(recent_recordings) : r.id \in committed..(ready - 1)})

\* Mutation of Oldest: not in order of age.
Newest(needed, ids) ==
  {id \in ids : FsBytes([y \in {y \in ids : y > id} |-> row[y]]) <= needed}

\* The oldest of ids, until they take more than is needed.
Oldest(needed, ids) ==
  {id \in ids : FsBytes([o \in {o \in ids : o < id} |-> row[o]]) <= needed}

\* delete_oldest_recordings: queues the oldest rows there are after those
\* already queued.
DeleteOldest(needed) ==
  LET after == {id \in DOMAIN row : \A d \in to_delete : d < id}
      more  == Oldest(needed, after)
  IN  /\ to_delete' = to_delete \cup more
      /\ fs_bytes_to_delete' = fs_bytes_to_delete + FsBytes(Restrict(row, more))

\* By how much the table will exceed the limit with what is ready inserted and
\* what is queued deleted.
Needed(ready) == fs_bytes + FsBytesToAdd(ready) - fs_bytes_to_delete - retain_bytes'

\* Mutation of EnqueueDelete: what becomes ready at the same time is not counted.
EnqueueForFlushed(ready) ==
  IF Needed(flush_ready) <= 0 THEN UNCHANGED <<to_delete, fs_bytes_to_delete>>
  ELSE DeleteOldest(Needed(flush_ready))

\* enqueue_delete_recordings: makes room for what is about to be inserted.
EnqueueDelete(ready) ==
  IF Needed(ready) <= 0 THEN UNCHANGED <<to_delete, fs_bytes_to_delete>>
  ELSE DeleteOldest(Needed(ready))

\* Its query for the oldest rows fails; nothing is queued.
EnqueueFails(ready) ==
  /\ Needed(ready) > 0
  /\ Fault
  /\ UNCHANGED <<to_delete, fs_bytes_to_delete>>

\* Flusher::handle_notify, for this stream: what is ready stays so if no room
\* could be made for it, which is only logged.
HandleNotify ==
  /\ process = "running"
  /\ DbUnlocked
  /\ flush_ready # writer_state.recording_id
  /\ flush_ready' = writer_state.recording_id
  /\ UNCHANGED retain_bytes
  /\ IF \E i \in DOMAIN recent_recordings :
          LET r == recent_recordings[i]
          IN  r.id \in flush_ready..(writer_state.recording_id - 1) /\ ~Deleted(r)
     THEN \/ EnqueueDelete(flush_ready') /\ overdue' = FALSE /\ UNCHANGED faults
          \/ EnqueueFails(flush_ready') /\ overdue' = TRUE
     ELSE UNCHANGED <<to_delete, fs_bytes_to_delete, overdue, faults>>
  /\ UNCHANGED <<recent_recordings, recent_frames, complete, committed,
                 writer_state, fs_bytes, pinned, threadVars, poolVars, file,
                 dbVars, process, removed, excused, leaked>>

\* Mutation of Ready: aborted recordings are not left out.
ReadyOrAborted == {r \in ToSet(recent_recordings) : r.id \in committed..(flush_ready - 1)}

\* What flush inserts: recordings synced, examined and not given up.
Ready == {r \in ToSet(recent_recordings) :
            r.id \in committed..(flush_ready - 1) /\ ~Deleted(r)}

\* flush, first scope: what to insert and what to delete.
FlushCollect ==
  /\ process = "running"
  /\ DbUnlocked
  /\ LET new == [id \in {r.id : r \in Ready} |->
                   (CHOOSE r \in Ready : r.id = id).sample_file_bytes]
     IN  flush' = [pc |-> "Collected", new |-> new,
                   cum |-> IF Ready = {} THEN NoId ELSE Max(DOMAIN new) + 1,
                   deletion |-> to_delete, gced |-> {}]
  /\ UNCHANGED <<streamVars, recording_id, io, gc, poolVars, file, dbVars,
                 process, faults, historyVars>>

\* The rows from the oldest to the last one queued, once flush.new is in.
DeletionRange ==
  IF flush.deletion = {} THEN {}
  ELSE {id \in DOMAIN row \cup DOMAIN flush.new : id <= Max(flush.deletion)}

\* flush, second scope: the SQL transaction, with no stream lock held.
FlushCommit ==
  /\ flush.pc = "Collected"
  /\ Cardinality(DeletionRange) = Cardinality(flush.deletion)
  /\ row' = [id \in (DOMAIN row \cup DOMAIN flush.new) \ DeletionRange |->
               IF id \in DOMAIN flush.new THEN flush.new[id] ELSE row[id]]
  /\ cum_recordings' = IF flush.cum = NoId THEN cum_recordings ELSE flush.cum
  /\ garbage' = (garbage \cup DeletionRange) \ garbage_unlinked
  /\ flush' = [flush EXCEPT !.pc = "Committed", !.gced = garbage_unlinked]
  /\ removed' = removed \cup DeletionRange
  /\ UNCHANGED <<streamVars, recording_id, io, gc, poolVars, file, process,
                 faults, excused, leaked, overdue>>

\* The transaction fails, or finds other rows to delete than were queued.
FlushFails ==
  /\ flush.pc = "Collected"
  /\ IF Cardinality(DeletionRange) = Cardinality(flush.deletion)
     THEN Fault
     ELSE UNCHANGED faults
  /\ flush' = NoFlush
  /\ UNCHANGED <<streamVars, recording_id, io, gc, poolVars, file, dbVars,
                 process, historyVars>>

\* delete_until: the recordings just deleted may still be recent.
DeleteUntil(recents, end) ==
  MarkDeleted(recents, {id \in Ids : id < end})

\* flush, third scope: the in-memory state follows the database.
FlushApply ==
  /\ flush.pc = "Committed"
  /\ LET end == IF to_delete = {} THEN 0 ELSE Max(to_delete) + 1
         deleted == DeleteUntil(recent_recordings, end)
         new(r) == /\ flush.cum # NoId
                   /\ r.id \in committed..(flush.cum - 1)
                   /\ ~Deleted(r)
         applied == [i \in DOMAIN deleted |->
                       IF new(deleted[i])
                       THEN [deleted[i] EXCEPT !.flags = @ \ {"UNCOMMITTED"}]
                       ELSE deleted[i]]
         added == {i \in DOMAIN deleted : new(deleted[i])}
     IN  /\ recent_recordings' = MaybePrune(applied, recent_frames, writer_state)
         /\ fs_bytes' = fs_bytes - fs_bytes_to_delete
                        + FsBytes([i \in added |-> deleted[i].sample_file_bytes])
  /\ garbage_needs_unlink' = garbage_needs_unlink \cup to_delete
  /\ to_delete' = {}
  /\ fs_bytes_to_delete' = 0
  /\ committed' = IF flush.cum = NoId THEN committed ELSE flush.cum
  /\ garbage_unlinked' = garbage_unlinked \ flush.gced
  /\ flush' = NoFlush
  /\ UNCHANGED <<recent_frames, complete, flush_ready, writer_state,
                 retain_bytes, pinned, recording_id, io, gc, file, dbVars,
                 process, faults, historyVars>>

Flush == FlushCollect \/ FlushCommit \/ FlushFails \/ FlushApply

-----------------------------------------------------------------------------
(* Garbage collection, by any of the pool's workers.                       *)

\* Unlinks what needs it; some unlinks may fail and are left for later.
GcUnlink(c) ==
  /\ process = "running"
  /\ gc[c] = {}
  /\ \E ids \in SUBSET garbage_needs_unlink :
       /\ ids # {}
       /\ ids = garbage_needs_unlink \/ faults < MaxFaults
       /\ faults' = IF ids = garbage_needs_unlink THEN faults ELSE faults + 1
       /\ gc' = [gc EXCEPT ![c] = ids]
       /\ file' = [id \in Ids |->
                     IF id \in ids /\ file[id].exists THEN Unlinked ELSE file[id]]
  /\ UNCHANGED <<streamVars, recording_id, io, flush, poolVars, dbVars,
                 process, historyVars>>

\* Syncs the directory, then records that those files are gone for good.
GcSync(c) ==
  /\ gc[c] # {}
  /\ file' = DirSynced
  /\ garbage_unlinked' =
       garbage_unlinked \cup (gc[c] \cap garbage_needs_unlink)
  /\ garbage_needs_unlink' = garbage_needs_unlink \ gc[c]
  /\ gc' = [gc EXCEPT ![c] = {}]
  /\ UNCHANGED <<streamVars, recording_id, io, flush, dbVars, process, faults,
                 historyVars>>

GcSyncFails(c) ==
  /\ gc[c] # {}
  /\ Fault
  /\ gc' = [gc EXCEPT ![c] = {}]
  /\ UNCHANGED <<streamVars, recording_id, io, flush, poolVars, file, dbVars,
                 process, historyVars>>

Collect == \E c \in Collectors : GcUnlink(c) \/ GcSync(c) \/ GcSyncFails(c)

-----------------------------------------------------------------------------
(* Crash and restart.                                                      *)

\* A create or unlink the directory was not synced after may or may not
\* survive; so may bytes a file was not synced after, here they do not.
Survivor(f, survives) ==
  IF ~survives THEN NoFile
  ELSE [exists |-> TRUE, pending |-> FALSE, synced |-> f.synced,
        size |-> IF f.synced THEN f.size ELSE 0]

Crash ==
  /\ process = "running"
  /\ Fault
  /\ process' = "down"
  /\ \E survivors \in SUBSET Ids :
       /\ \A id \in Ids :
            ~file[id].pending => (id \in survivors <=> file[id].exists)
       /\ file' = [id \in Ids |-> Survivor(file[id], id \in survivors)]
  /\ recent_recordings' = << >>
  /\ recent_frames' = << >>
  /\ complete' = cum_recordings
  /\ committed' = cum_recordings
  /\ flush_ready' = cum_recordings
  /\ writer_state' = [recording_id |-> 0, written |-> 0, file |-> FALSE]
  /\ to_delete' = {}
  /\ fs_bytes' = FsBytes(row)
  /\ fs_bytes_to_delete' = 0
  /\ pinned' = FALSE
  /\ recording_id' = NoId
  /\ io' = Idle
  /\ flush' = NoFlush
  /\ gc' = [c \in Collectors |-> {}]
  /\ garbage_needs_unlink' = garbage
  /\ garbage_unlinked' = {}
  /\ excused' = {id \in excused : id < cum_recordings}
  /\ leaked' = {id \in leaked : id < cum_recordings}
  /\ overdue' = FALSE
  /\ UNCHANGED <<retain_bytes, dbVars, removed>>

\* Mutation of Abandon: off by one.
AbandonAllButOne ==
  /\ process = "down"
  /\ process' = "abandoned"
  /\ file' = [id \in Ids |->
                IF file[id].exists /\ id > committed THEN Unlinked ELSE file[id]]
  /\ UNCHANGED <<streamVars, threadVars, poolVars, dbVars, faults, historyVars>>

\* abandon: unlinks the files of recordings no flush committed.
Abandon ==
  /\ process = "down"
  /\ process' = "abandoned"
  /\ file' = [id \in Ids |->
                IF file[id].exists /\ id >= committed THEN Unlinked ELSE file[id]]
  /\ UNCHANGED <<streamVars, threadVars, poolVars, dbVars, faults, historyVars>>

\* initial_rotation, up to its first flush; streamers start afterwards.  The
\* limit may have been changed since the last start (moonfire-nvr config).
InitialRotation ==
  /\ process = "abandoned"
  /\ process' = "running"
  /\ retain_bytes' \in Limits
  /\ EnqueueDelete(flush_ready)
  /\ UNCHANGED <<recent_recordings, recent_frames, complete, committed,
                 flush_ready, writer_state, fs_bytes, pinned, threadVars,
                 poolVars, file, dbVars, faults, historyVars>>

-----------------------------------------------------------------------------
(* moonfire-nvr check, run while the process is stopped.                   *)

\* read_dir's inventory of the directory, and the garbage rows.
Inventory == [files |-> {id \in Ids : file[id].exists}, garbage |-> garbage]

\* What compare_stream is given.  The inventory is collected in a variable
\* of an inner block; the outer one of the same name, dirs_by_id, in which
\* the streams are then looked up, stays empty.
dirs_by_id == [files |-> {}, garbage |-> {}]

\* compare_stream, given such an inventory.
RowExpected(id, stream) == id \notin stream.garbage /\ id < cum_recordings

MissingFiles(stream) ==
  {id \in DOMAIN row \ stream.files : RowExpected(id, stream)}

MissingRows(stream) ==
  {id \in (stream.files \cup stream.garbage) \ DOMAIN row :
     RowExpected(id, stream)}

UnexpectedRows(stream) == {id \in DOMAIN row : ~RowExpected(id, stream)}

LengthMismatches(stream) ==
  {id \in DOMAIN row \cap stream.files :
     RowExpected(id, stream) /\ file[id].size # row[id]}

\* What it reports (with --compare-lens).
Errors(stream) == MissingFiles(stream) \cup MissingRows(stream)
                  \cup UnexpectedRows(stream) \cup LengthMismatches(stream)

\* What --delete-orphan-rows deletes.
rows_to_delete == MissingFiles(dirs_by_id)

-----------------------------------------------------------------------------

Next ==
  \/ Write
  \/ Worker
  \/ HandleNotify
  \/ Flush
  \/ Collect
  \/ Crash
  \/ Abandon
  \/ InitialRotation

Spec == Init /\ [][Next]_vars

-----------------------------------------------------------------------------
(* Safety properties.                                                      *)

(***************************************************************************)
(* A row of the recording table stands for a whole, durable sample file:   *)
(* the file exists, its directory entry and its bytes have been synced,    *)
(* and it has the length the row says.  This is what flush_ready, the      *)
(* worker's two fsyncs and the garbage table are for (design/schema.md).   *)
(***************************************************************************)
CommittedDurable ==
  \A id \in DOMAIN row :
    file[id] = [exists |-> TRUE, pending |-> FALSE, size |-> row[id],
                synced |-> TRUE]

(***************************************************************************)
(* No sample file is forgotten: one that exists, or that a crash could     *)
(* bring back, belongs to a recording row or a garbage row, or has an id   *)
(* that the next start's abandon will unlink.  The exception is the one    *)
(* the code names: an abort whose unlink failed (dir/writer.rs, XXX).      *)
(* So whenever the process dies, compare_stream, were it given the whole   *)
(* inventory, would find nothing amiss but these.                          *)
(***************************************************************************)
NoForgottenFile ==
  /\ \A id \in Ids :
       file[id].exists \/ file[id].pending =>
         \/ id \in DOMAIN row \cup garbage \cup leaked
         \/ id >= cum_recordings
  /\ process = "down" => Errors(Inventory) \subseteq leaked

(***************************************************************************)
(* "Deletes recording rows in the database without matching sample files"  *)
(* (moonfire-nvr check --delete-orphan-rows, server/src/cmds/check.rs):    *)
(* and no others.                                                          *)
(***************************************************************************)
DeletesOrphanRows ==
  process = "down" => \A id \in rows_to_delete : ~file[id].exists

(***************************************************************************)
(* No recording vanishes: each id handed out in this open, or before the   *)
(* last commit, can be found in the table or in recent_recordings, unless  *)
(* it was deleted by retention, met an I/O error, or lost frames to        *)
(* prune_front because the worker was more than BytesForWriter behind.     *)
(* A flush that passes over a recording, or a prune that drops one before  *)
(* its row is written, breaks this.                                        *)
(***************************************************************************)
Listed(id) ==
  \/ id \in DOMAIN row
  \/ \E i \in DOMAIN recent_recordings :
       recent_recordings[i].id = id /\ ~Deleted(recent_recordings[i])

NothingVanishes ==
  \A id \in Ids :
    id < complete \/ id = recording_id => Listed(id) \/ id \in removed \cup excused

(* What the assertions of the Writer and the worker state.                 *)

\* add_recording and get: a growing recording is the last, and the writer's.
GrowingIsLast ==
  /\ \A i \in DOMAIN recent_recordings :
       LET r == recent_recordings[i]
       IN  Growing(r) => i = Len(recent_recordings) /\ r.id = recording_id
  /\ recording_id # NoId =>
       /\ recording_id = complete
       /\ recent_recordings # << >>
       /\ LET r == recent_recordings[Len(recent_recordings)]
          IN  r.id = recording_id /\ Uncommitted(r) /\ Growing(r)

\* write_iter_prep: "fully written recording was pruned", and written bytes.
SyncedIsRecent ==
  io.op \in {"Sync", "SyncDir", "Synced"} =>
    \E i \in DOMAIN recent_recordings :
      LET r == recent_recordings[i]
      IN  /\ r.id = writer_state.recording_id
          /\ r.sample_file_bytes = writer_state.written
          /\ ~Growing(r)

\* write_iter_prep: "fully written file should be open"; nothing is written
\* when the worker moves on to another recording.
FileIffWritten ==
  io.op \in {"Idle", "Start"} => (writer_state.file <=> writer_state.written > 0)

\* prepare_write: "there should be no missing frames in the middle".
FramesContiguous ==
  \A i \in 1..(Len(recent_frames) - 1) :
    LET f == recent_frames[i]
        g == recent_frames[i + 1]
    IN  \/ g.recording_id = f.recording_id /\ g.sample_start = f.sample_start + f.len
        \/ g.recording_id = f.recording_id + 1 /\ g.sample_start = 0

(* What the assertions of flush and of the SQL it runs state.              *)

\* insert_recordings: neither growing nor already committed.
ReadyIsComplete ==
  \A i \in DOMAIN recent_recordings :
    LET r == recent_recordings[i]
    IN  r.id \in committed..(flush_ready - 1) /\ ~Deleted(r)
          => Uncommitted(r) /\ ~Growing(r)

\* delete_until: what a flush deletes is committed.
DeletedIsCommitted ==
  \A i \in DOMAIN recent_recordings :
    LET r == recent_recordings[i]
    IN  to_delete # {} /\ r.id <= Max(to_delete) => ~Uncommitted(r)

\* mark_sample_files_deleted: "no garbage row"; remove_garbage_unlinked_prefix.
UnlinkedIsGarbage ==
  /\ flush.pc # "Committed" => garbage_unlinked \subseteq garbage
  /\ flush.gced \subseteq garbage_unlinked

\* delete_recordings: the count of deleted rows is the one expected.
DeletesWhatItCounted ==
  flush.pc = "Collected" => Cardinality(DeletionRange) = Cardinality(flush.deletion)

(***************************************************************************)
(* The assertions of the Writer, the worker and flush hold whenever they   *)
(* are evaluated, and so do the checks of the SQL that flush runs, however *)
(* these three, collectors and listings interleave.                        *)
(***************************************************************************)
NothingPanics ==
  /\ GrowingIsLast /\ SyncedIsRecent /\ FileIffWritten /\ FramesContiguous
  /\ ReadyIsComplete /\ DeletedIsCommitted /\ UnlinkedIsGarbage
  /\ DeletesWhatItCounted

(***************************************************************************)
(* Retention: a flush that inserts recordings leaves the table within      *)
(* retain_bytes, or with nothing but those.  The rows to delete were       *)
(* chosen earlier, when the recordings became ready, from counters kept    *)
(* over inserts, deletions, failed flushes and aborted recordings, which   *)
(* still tally with the table; the stream's disk would fill up if they     *)
(* fell behind (enqueue_delete_recordings).  When that choice fails, which *)
(* handle_notify only logs, flushes may exceed the limit until it succeeds *)
(* for a later recording, which makes up for it (lifecycle.rs:256-260).    *)
(***************************************************************************)
RetentionKept ==
  IF flush.pc = "Committed"
  THEN \/ flush.cum = NoId
       \/ overdue
       \/ FsBytes(row) <= retain_bytes
       \/ DOMAIN row \subseteq DOMAIN flush.new
  ELSE /\ fs_bytes = FsBytes(row)
       /\ fs_bytes_to_delete = FsBytes(Restrict(row, to_delete))

(***************************************************************************)
(* The detailed life of recordings implements the abstract one of          *)
(* RecordingLife: rows are committed in order without passing over a live  *)
(* recording, deleted oldest first, forgotten only once their file is      *)
(* gone, and a crash undoes only what no flush had committed.              *)
(***************************************************************************)
Life(id) ==
  IF id \in DOMAIN row THEN "kept"
  ELSE IF id \in garbage THEN "garbage"
  ELSE IF id \in removed THEN "gone"
  ELSE IF Listed(id) THEN "live"
  ELSE IF id < complete \/ id = recording_id THEN "lost"
  ELSE "none"

Abstract == INSTANCE RecordingLife WITH life <- [id \in Ids |-> Life(id)]

ImplementsLife == Abstract!Spec
=============================================================================
